---- MODULE Spec2Model ----
(***************************************************************************)
(* The backtest engine of modules/backtest_analyzer.py: run_backtest runs  *)
(* MLSignalStrategy and then SMACrossBaseline, each in a fresh Cerebro     *)
(* with the default broker (market orders of one unit, executed by the     *)
(* broker at the open of the bar after the one they were created on).      *)
(* The two runs share nothing but the bars and the parameters: a behaviour *)
(* follows one of them, the strategy variable saying which.                *)
(* Once the run is over run_backtest reads its value and counters and      *)
(* computes the figures it reports for that strategy.                      *)
(*                                                                         *)
(* Units.  Prices are whole numbers.  Money (cash, value) is counted in    *)
(* 1/Scale of a price unit, so that a commission rate of commission/Scale  *)
(* is exact.  Probabilities and ml_threshold are in hundredths.            *)
(***************************************************************************)
EXTENDS Integers, Sequences, FiniteSets, TLC

\* ------------------------------------------------------------ bounds
MaxBars == 6            \* bars in the data feed: 1..MaxBars
MaxDay == 3              \* days a features table can have rows for: 1..MaxDay
MaxStocks == 3           \* longest stock_list given to batch_backtest
MaxTrades == 3          \* largest trade_count handed to the summary directly
MaxGain == 4            \* largest gain or loss, in price units, handed to it directly
MaxProbLen == 2         \* longest pred_prob array handed to MLSignalStrategy directly
fast_period == 2        \* SMACrossBaseline.params.fast_period, scaled down
slow_period == 3        \* SMACrossBaseline.params.slow_period, scaled down

\* ------------------------------------------------------------ inputs
Scale == 10000          \* money unit: commission=0.0008 is 8/Scale
ml_threshold == 51      \* ml_threshold=0.51, in hundredths
Prices == {19, 20, 21}  \* open and close of a bar
Probs == {50, 51, 60}   \* pred_prob values: below, at and above the threshold
Cashes == {20 * Scale, 100 * Scale}  \* cash: one that a BUY can exhaust, one ample
Commissions == {0, 8}   \* commission, per Scale

\* Scenario A of the specification: the closes and pred_prob of its five bars.
\* It gives no opens: each is drawn from ScenarioOpens.
ScenarioCloses == <<100, 101, 102, 103, 102>>
ScenarioProbs == <<60, 60, 40, 40, 40>>
ScenarioOpens == 99..104
ScenarioCash == 100000 * Scale

None == [side |-> "none"]

\* run_backtest: the columns the table must have, and those of them a table
\* with the columns cols lacks.
\* (variant: volume is not asked for)
RequiredCols_NoVolume == {"open", "high", "low", "close", "pred_prob"}
RequiredCols == {"open", "high", "low", "close", "volume", "pred_prob"}
MissingCols(cols) == RequiredCols \ cols
\* The tables given: with every required column, or with all but one.
ColumnChoices ==
    {{"open", "high", "low", "close", "volume", "pred_prob"} \ {c} :
        c \in {"open", "high", "low", "close", "volume", "pred_prob", "none"}}
NoSingle == [at |-> "unused"]
NoBatch == [at |-> "unused"]

\* params.pred_prob of MLSignalStrategy.  Column is the array run_backtest
\* passes, features_df['pred_prob'].values: one entry per bar, each read once,
\* its value drawn when read.  An array given outright has its values here;
\* NoArray is the default, None.
Column == [kind |-> "column", values |-> <<>>]
NoArray == [kind |-> "None", values |-> <<>>]
Array(s) == [kind |-> "array", values |-> s]
PredProbArrays ==
    {Array(s) : s \in UNION {[1..n -> Probs] : n \in 0..MaxProbLen}} \cup {NoArray}
Window == (IF fast_period > slow_period THEN fast_period ELSE slow_period) + 1

VARIABLES
    scenario,       \* "none": any bars within the bounds; "A": the bars of scenario A
    columns,        \* the columns of the table given to run_backtest
    single,         \* run_single_backtest: its inputs and what it did with them
    batch,          \* batch_backtest: its inputs, place in the loop and results
    fills,          \* history: [gross, turnover] summed over the orders completed
    pred_prob,      \* MLSignalStrategy.params.pred_prob
    strategy,       \* "ml" | "base": the strategy of this cerebro.run()
    phase,          \* "entry", "run", then "done" and "reported", or "failed"
    pc,             \* place in the bar loop: "advance" | "broker" | "notify" | "next"
    idx,            \* index of the current bar, -1 before the first
    bar,            \* the current bar: [close]
    closes,         \* baseline: the last Window closes up to the current bar
    params,         \* [cash, commission] as given to run_backtest
    cash,           \* broker.cash
    position,       \* broker position of the data: [size, price]
    submitted,      \* broker queue of orders created and not yet processed
    notifs,         \* order notifications awaiting delivery to the strategy
    order,          \* strategy.order: None or the order object it refers to
    nref,           \* orders created so far (Order.ref)
    buyprice,       \* strategy.buyprice, 0 for None
    current_prob,   \* MLSignalStrategy.current_prob
    trade_count,    \* strategy.trade_count
    win_count,      \* strategy.win_count
    buy_fills,      \* history: BUY orders completed so far
    sell_fills,     \* history: SELL orders completed so far
    last_buy,       \* history: [bar, price] of the latest BUY completed
    last_sell,      \* history: [bar, price] of the latest SELL completed
    result,         \* [value, trades, wins] read off the run once it is over
    report          \* the strategy's entry of the dict run_backtest returns

vars == <<scenario, columns, single, batch, fills, pred_prob, report, strategy, phase, pc, idx, bar, closes, params, cash, position, submitted,
          notifs, order, nref, buyprice, current_prob, trade_count, win_count,
          buy_fills, sell_fills, last_buy, last_sell, result>>

\* ------------------------------------------------------------ broker
\* An order object: ref, side, status, created (close of the bar it was
\* created on), executed (price, 0 until executed), bar (index of creation),
\* filled (index of the bar of its execution, -1 until then).
NewOrder(ref, side) ==
    [ref |-> ref, side |-> side, status |-> "Submitted", created |-> bar.close,
     executed |-> 0, bar |-> idx, filled |-> -1]

Size(o) == IF o.side = "buy" THEN 1 ELSE -1

\* CommInfoBase.getcommission for a percentage scheme: |size| * commission * price
\* (variant: nothing is charged)
Commission_None(price) == 0
Commission(price) == params.commission * price

\* BackBroker._execute on cash alone: buying a unit costs price plus
\* commission, selling one returns price minus commission.
CashAfter(c, o, price) ==
    IF o.side = "buy" THEN c - price * Scale - Commission(price)
                      ELSE c + price * Scale - Commission(price)

\* Position.update for one unit.
PositionAfter(p, o, price) ==
    LET size == p.size + Size(o)
    IN  IF size = 0 THEN [size |-> 0, price |-> 0]
        ELSE IF p.size = 0 \/ (p.size > 0) # (size > 0) THEN [size |-> size, price |-> price]
        ELSE IF (size > 0) = (Size(o) > 0)
             THEN [size |-> size, price |-> (p.price * p.size + Size(o) * price) \div size]
             ELSE [size |-> size, price |-> p.price]

\* Does the order open (rather than close) a unit?
Opens(p, o) == IF o.side = "buy" THEN p.size >= 0 ELSE p.size <= 0

\* The broker's test of the cash an execution would leave: not negative.
\* (variant: no test, every order is paid for)
CanPay_Always(c) == TRUE
CanPay(c) == c >= 0

\* BackBroker.check_submitted: each queued order is pseudo-executed at its
\* created price on a running cash and a cloned position; it is accepted when
\* the cash left is not negative and gets status Margin otherwise.
RECURSIVE CheckSubmitted(_, _, _)
CheckSubmitted(q, c, p) ==
    IF q = <<>> THEN <<>>
    ELSE LET o == Head(q)
             c2 == CashAfter(c, o, o.created)
         IN  <<[o EXCEPT !.status = IF CanPay(c2) THEN "Accepted" ELSE "Margin"]>>
             \o CheckSubmitted(Tail(q), c2, PositionAfter(p, o, o.created))

\* BackBroker._try_exec_market and _execute: an accepted market order is
\* executed at the open of the current bar (open); an order that opens a unit the
\* cash cannot pay for is not executed and gets status Margin.  The result is
\* [cash, position, orders]: the broker's cash and position and the order
\* objects as they are after broker.next().
RECURSIVE Execute(_, _, _, _)
Execute(q, c, p, open) ==
    IF q = <<>> THEN [cash |-> c, position |-> p, orders |-> <<>>]
    ELSE LET o  == Head(q)
             c2 == CashAfter(c, o, open)
             ok == o.status = "Accepted" /\ (Opens(p, o) => CanPay(c2))
             o2 == IF ok THEN [o EXCEPT !.status = "Completed", !.executed = open,
                                        !.filled = idx]
                   ELSE [o EXCEPT !.status = "Margin"]
             r  == IF ok THEN Execute(Tail(q), c2, PositionAfter(p, o, open), open)
                   ELSE Execute(Tail(q), c, p, open)
         IN  [r EXCEPT !.orders = <<o2>> \o r.orders]

\* What the strategy is told of an order: a clone with its status at the time.
Notice(o) == [side |-> o.side, status |-> o.status, executed |-> o.executed]

\* The notifications broker.next() queues for the processed orders: Accepted,
\* then Completed, or Margin alone.
RECURSIVE Notices(_)
Notices(os) ==
    IF os = <<>> THEN <<>>
    ELSE LET o == Head(os)
         IN  (IF o.status = "Completed"
              THEN <<Notice([o EXCEPT !.status = "Accepted", !.executed = 0]), Notice(o)>>
              ELSE <<Notice(o)>>) \o Notices(Tail(os))

Count(os, side) == Cardinality({i \in 1..Len(os) : os[i].side = side /\ os[i].status = "Completed"})

\* [bar, price] of the last order of that side completed in os, else prev.
RECURSIVE LastFill(_, _, _)
LastFill(os, side, prev) ==
    IF os = <<>> THEN prev
    ELSE LET o == Head(os)
         IN  LastFill(Tail(os), side,
                      IF o.side = side /\ o.status = "Completed"
                      THEN [bar |-> o.filled, price |-> o.executed] ELSE prev)

\* The order object the strategy refers to, as the broker left it.
Refreshed(o, os) ==
    IF o # None /\ \E i \in 1..Len(os) : os[i].ref = o.ref
    THEN os[CHOOSE i \in 1..Len(os) : os[i].ref = o.ref]
    ELSE o

\* Over the orders completed in os, added to f: gross, the prices of the SELLs
\* less those of the BUYs, and turnover, the prices of them all.
RECURSIVE FillSums(_, _)
FillSums(os, f) ==
    IF os = <<>> THEN f
    ELSE LET o == Head(os)
         IN  FillSums(Tail(os),
                      IF o.status # "Completed" THEN f
                      ELSE [gross    |-> f.gross + (IF o.side = "sell" THEN o.executed
                                                    ELSE -o.executed),
                            turnover |-> f.turnover + o.executed])

\* The feed: len(features_df), and the values a bar can take.
FeedLen == IF scenario = "A" THEN Len(ScenarioCloses) ELSE MaxBars
CloseChoices == IF scenario = "A" THEN {ScenarioCloses[idx + 2]} ELSE Prices
OpenChoices == IF scenario = "A" THEN ScenarioOpens ELSE Prices

\* MLSignalStrategy.next, the lookup of the probability of bar i: the index
\* is i, or the last index when i is beyond the array.
\* (variant: an index beyond the array falls back to the first entry)
MappedIdx_First(i) == IF i >= Len(pred_prob.values) THEN 0 ELSE i
MappedIdx(i) == IF i >= Len(pred_prob.values) THEN Len(pred_prob.values) - 1 ELSE i
DefaultProb == 50
PredProbAt(i) ==
    IF pred_prob.kind = "array" /\ Len(pred_prob.values) > 0
    THEN pred_prob.values[MappedIdx(i) + 1]
    ELSE DefaultProb
ProbChoices == IF pred_prob.kind = "column" THEN Probs ELSE {PredProbAt(idx)}

\* MLSignalStrategy.next on the first bar prints pred_prob.min() of an array
\* that is not None: numpy raises ValueError when the array is empty.
PrintRaises == idx = 0 /\ pred_prob.kind = "array" /\ Len(pred_prob.values) = 0

\* Cerebro._runonce, the data feed: the next bar is loaded.  Its close is
\* drawn here; its open is read by broker.next() alone and is drawn there.
\* The closes behind the moving averages are kept for the strategy that has
\* them.
Advance ==
    /\ phase = "run"
    /\ pc = "advance"
    /\ idx + 1 < FeedLen
    /\ \E c \in CloseChoices :
         /\ bar' = [close |-> c]
         /\ closes' = IF strategy = "ml" THEN closes
                      ELSE LET h == Append(closes, c)
                           IN  IF Len(h) > Window THEN Tail(h) ELSE h
    /\ idx' = idx + 1
    /\ pc' = "broker"
    /\ UNCHANGED <<scenario, columns, single, batch, fills, pred_prob, report, strategy, phase, params, cash, position, submitted, notifs, order, nref,
                   buyprice, current_prob, trade_count, win_count, buy_fills,
                   sell_fills, last_buy, last_sell, result>>

\* Cerebro._brokernotify: broker.next() processes the queued orders against
\* the bar just loaded, whose open is open.
BrokerNext ==
    /\ pc = "broker"
    /\ \E open \in OpenChoices :
         LET r == Execute(CheckSubmitted(submitted, cash, position), cash, position, open)
         IN  /\ cash' = r.cash
             /\ position' = r.position
             /\ order' = Refreshed(order, r.orders)
             /\ notifs' = notifs \o Notices(r.orders)
             /\ buy_fills' = buy_fills + Count(r.orders, "buy")
             /\ sell_fills' = sell_fills + Count(r.orders, "sell")
             /\ last_buy' = LastFill(r.orders, "buy", last_buy)
             /\ last_sell' = LastFill(r.orders, "sell", last_sell)
             /\ fills' = FillSums(r.orders, fills)
    /\ submitted' = <<>>
    /\ pc' = "notify"
    /\ UNCHANGED <<scenario, columns, single, batch, pred_prob, report, strategy, phase, idx, bar, closes, params, nref, buyprice,
                   current_prob, trade_count, win_count, result>>

\* ------------------------------------------------------------ strategies
\* The statuses after which next() drops its reference to the order.
Terminal(o) == o # None /\ o.status \in {"Completed", "Cancelled", "Rejected"}

\* Variant: next() goes on to its decision with an order outstanding.
Waiting_NoGuard(o) == FALSE

\* "if self.order: return", after the reset of a terminal order.
Waiting(o) == o # None /\ ~Terminal(o)

\* "if not self.position"
\* (variant: the position is not looked at)
Flat_Always == TRUE
Flat == position.size = 0

\* order.executed.price > self.buyprice, with buyprice set
IsWin(price) == buyprice # 0 /\ price > buyprice

\* Variant: trade_count += 1 sits in the branch of the losing trade.
notify_order_CountLosses(st, n) ==
    IF n.status = "Completed" /\ n.side = "sell"
    THEN IF IsWin(n.executed)
         THEN [st EXCEPT !.win_count = @ + 1]
         ELSE [st EXCEPT !.trade_count = @ + 1]
    ELSE st

\* notify_order of either strategy (the two bodies are the same): the effect
\* of one notification on [trade_count, win_count].
notify_order(st, n) ==
    IF n.status = "Completed" /\ n.side = "sell"
    THEN [trade_count |-> st.trade_count + 1,
          win_count   |-> st.win_count + (IF IsWin(n.executed) THEN 1 ELSE 0)]
    ELSE st

\* Strategy._notify: every queued notification goes through notify_order.
RECURSIVE Deliver(_, _)
Deliver(st, ns) ==
    IF ns = <<>> THEN st ELSE Deliver(notify_order(st, Head(ns)), Tail(ns))

Notify ==
    /\ pc = "notify"
    /\ LET st == Deliver([trade_count |-> trade_count, win_count |-> win_count], notifs)
       IN  /\ trade_count' = st.trade_count
           /\ win_count' = st.win_count
    /\ notifs' = <<>>
    /\ pc' = "next"
    /\ UNCHANGED <<scenario, columns, single, batch, fills, pred_prob, report, strategy, phase, idx, bar, closes, params, cash, position, submitted,
                   order, nref, buyprice, current_prob, buy_fills, sell_fills, last_buy, last_sell, result>>

\* self.buy() / self.sell(): a market order of one unit goes to the broker,
\* which queues it and notifies its submission.
Submit(side) ==
    LET o == NewOrder(nref + 1, side)
    IN  /\ order' = o
        /\ submitted' = Append(submitted, o)
        /\ notifs' = Append(notifs, Notice(o))
        /\ nref' = nref + 1

NoSubmit == UNCHANGED <<submitted, notifs, nref>>

\* Variant: the entry comparison is not strict.
BuySignal_NonStrict(p) == p >= ml_threshold

\* The two comparisons of MLSignalStrategy.next.
BuySignal(p) == p > ml_threshold
SellSignal(p) == p <= ml_threshold

\* MLSignalStrategy.next.  An exception it raises ends cerebro.run() and is
\* caught by run_backtest, which returns None (phase "failed").
MLNext ==
    /\ strategy = "ml"
    /\ pc = "next"
    /\ pc' = "advance"
    /\ LET o == IF Terminal(order) THEN None ELSE order
       IN  IF Waiting(o)
           THEN /\ order' = o
                /\ NoSubmit
                /\ UNCHANGED <<buyprice, current_prob, phase>>
           ELSE \E p \in ProbChoices :
                  /\ current_prob' = p
                  /\ IF PrintRaises
                     THEN /\ phase' = "failed"
                          /\ order' = o /\ NoSubmit /\ UNCHANGED buyprice
                     ELSE /\ UNCHANGED phase
                          /\ IF Flat
                             THEN IF BuySignal(p)
                                  THEN Submit("buy") /\ buyprice' = bar.close
                                  ELSE order' = o /\ NoSubmit /\ UNCHANGED buyprice
                             ELSE IF SellSignal(p)
                                  THEN Submit("sell") /\ UNCHANGED buyprice
                                  ELSE order' = o /\ NoSubmit /\ UNCHANGED buyprice
    /\ UNCHANGED <<scenario, columns, single, batch, fills, pred_prob, report, strategy, idx, bar, closes, params, cash, position,
                   trade_count, win_count, buy_fills, sell_fills, last_buy, last_sell, result>>

\* bt.indicators.SMA(self.data.close, period) read at [0] (ago = 0) or [-1]
\* (ago = 1): the mean of the period closes up to that bar, NaN (ok = FALSE)
\* while fewer than period closes are there.  A mean is kept as sum over n.
RECURSIVE Sum(_, _, _)
Sum(h, from, to) == IF from > to THEN 0 ELSE h[from] + Sum(h, from + 1, to)

SMA(period, ago) ==
    LET ok   == idx - ago >= period - 1
        last == Len(closes) - ago
    IN  [ok |-> ok, sum |-> IF ok THEN Sum(closes, last - period + 1, last) ELSE 0,
         n |-> period]

fast_ma(ago) == SMA(fast_period, ago)
slow_ma(ago) == SMA(slow_period, ago)

\* Float comparisons of two means; every comparison with NaN is false.
Gt(x, y) == x.ok /\ y.ok /\ x.sum * y.n > y.sum * x.n
Lt(x, y) == x.ok /\ y.ok /\ x.sum * y.n < y.sum * x.n
Le_NotGt(x, y) == ~Gt(x, y)    \* variant: "not (x > y)", true of a NaN
Le(x, y) == x.ok /\ y.ok /\ x.sum * y.n <= y.sum * x.n
Ge(x, y) == x.ok /\ y.ok /\ x.sum * y.n >= y.sum * x.n

\* The period of the strategy: next() is first called on the bar on which
\* every indicator has a value, prenext() before.
MinPeriod == IF fast_period > slow_period THEN fast_period ELSE slow_period

\* Variant: the fast mean need only reach the slow one.
GoldenCross_NonStrict == Ge(fast_ma(0), slow_ma(0)) /\ Le(fast_ma(1), slow_ma(1))

GoldenCross == Gt(fast_ma(0), slow_ma(0)) /\ Le(fast_ma(1), slow_ma(1))
DeathCross == Lt(fast_ma(0), slow_ma(0)) /\ Ge(fast_ma(1), slow_ma(1))

\* self.data.close[0] < self.buyprice * 0.95
StopLoss == 100 * bar.close < 95 * buyprice

\* "if self.order.executed.price > self.buyprice: self.win_count += 1;
\* self.trade_count += 1", run by SMACrossBaseline.next right after self.sell():
\* the order is not executed yet and its executed price is 0.
CountAtSubmit ==
    /\ win_count' = win_count + (IF order'.executed > buyprice THEN 1 ELSE 0)
    /\ trade_count' = trade_count + 1

\* SMACrossBaseline.next, and prenext (nothing) on the bars before MinPeriod.
BaseNext ==
    /\ strategy = "base"
    /\ pc = "next"
    /\ pc' = "advance"
    /\ IF idx < MinPeriod - 1
       THEN UNCHANGED <<order, submitted, notifs, nref, buyprice, trade_count, win_count>>
       ELSE LET o == IF Terminal(order) THEN None ELSE order
            IN  IF Waiting(o)
                THEN /\ order' = o
                     /\ NoSubmit
                     /\ UNCHANGED <<buyprice, trade_count, win_count>>
                ELSE IF Flat
                THEN IF GoldenCross
                     THEN /\ Submit("buy")
                          /\ buyprice' = bar.close
                          /\ UNCHANGED <<trade_count, win_count>>
                     ELSE /\ order' = o
                          /\ NoSubmit
                          /\ UNCHANGED <<buyprice, trade_count, win_count>>
                ELSE IF DeathCross
                     THEN Submit("sell") /\ CountAtSubmit /\ UNCHANGED buyprice
                     ELSE IF StopLoss
                          THEN Submit("sell") /\ CountAtSubmit /\ UNCHANGED buyprice
                          ELSE /\ order' = o
                               /\ NoSubmit
                               /\ UNCHANGED <<buyprice, trade_count, win_count>>
    /\ UNCHANGED <<scenario, columns, single, batch, fills, pred_prob, report, strategy, phase, idx, bar, closes, params, cash, position, current_prob,
                   buy_fills, sell_fills, last_buy, last_sell, result>>

\* ------------------------------------------------------------ run_backtest
\* broker.getvalue(): cash plus the position at the close of the last bar.
\* (variant: the position is carried at the price it was entered at)
Value_AtCost == cash + position.size * position.price * Scale
Value == cash + position.size * bar.close * Scale

NoBar == [close |-> 0]

\* cerebro.run() returns when the feed is exhausted, here after any number of
\* bars from 1 to MaxBars (after all five in scenario A); final_value and the
\* strategy's counters are read.
\* (variant: the run is over only once no order is outstanding)
RunDone_NoOrderLeft ==
    /\ phase = "run"
    /\ pc = "advance"
    /\ idx >= 0
    /\ IF order = None THEN TRUE ELSE order.status \in {"Completed", "Cancelled", "Rejected"}
    /\ scenario = "A" => idx + 1 = FeedLen
    /\ result' = [value |-> Value, trades |-> trade_count, wins |-> win_count]
    /\ phase' = "done"
    /\ UNCHANGED <<scenario, columns, single, batch, fills, pred_prob, report, strategy, pc,
                   idx, bar, closes, params, cash, position, submitted, notifs, order, nref,
                   buyprice, current_prob, trade_count, win_count, buy_fills, sell_fills,
                   last_buy, last_sell>>
RunDone ==
    /\ phase = "run"
    /\ pc = "advance"
    /\ idx >= 0
    /\ scenario = "A" => idx + 1 = FeedLen
    /\ result' = [value |-> Value, trades |-> trade_count, wins |-> win_count]
    /\ phase' = "done"
    /\ UNCHANGED <<scenario, columns, single, batch, fills, pred_prob, report, strategy, pc, idx, bar, closes, params, cash, position, submitted,
                   notifs, order, nref, buyprice, current_prob, trade_count, win_count,
                   buy_fills, sell_fills, last_buy, last_sell>>

\* Exact fractions [num, den], den > 0, in lowest terms, for the floats of
\* the summary.
Abs(n) == IF n < 0 THEN -n ELSE n
RECURSIVE GCD(_, _)
GCD(a, b) == IF b = 0 THEN a ELSE GCD(b, a % b)
Frac(n, d) == LET g == GCD(Abs(n), d) IN [num |-> n \div g, den |-> d \div g]
Zero == Frac(0, 1)
Times(a, b) == Frac(a.num * b.num, a.den * b.den)
Less(a, b) == a.num * b.den < b.num * a.den
MinQ(a, b) == IF Less(b, a) THEN b ELSE a
MaxQ(a, b) == IF Less(a, b) THEN b ELSE a
AbsQ(a) == [num |-> Abs(a.num), den |-> a.den]

\* (final_value - initial_value) / initial_value
TotalReturn(final, initial) == Frac(final - initial, initial)

\* (wins / trades * 100) if trades > 0 else 0
WinRate(wins, trades) == IF trades > 0 THEN Frac(wins * 100, trades) ELSE Zero

\* The sharpe figure, kept as coef * sqrt(root):
\* total_return * np.sqrt(trades), halved unless total_return > 0; 0.0 with
\* no trades.
\* (variant: never halved)
Sharpe_NoHalf(ret, trades) ==
    IF trades > 0 THEN [coef |-> ret, root |-> trades] ELSE [coef |-> Zero, root |-> 0]
Sharpe(ret, trades) ==
    IF trades > 0
    THEN IF Less(Zero, ret)
         THEN [coef |-> ret, root |-> trades]
         ELSE [coef |-> Times(ret, Frac(1, 2)), root |-> trades]
    ELSE [coef |-> Zero, root |-> 0]

\* The constants of the max_drawdown estimate of each strategy.
Coef ==
    [ml   |-> [k_loss |-> Frac(6, 10), floor_loss |-> Frac(-3, 100), k_gain |-> Frac(3, 10),
               min_gain |-> Frac(5, 1000), max_gain |-> Frac(5, 100)],
     base |-> [k_loss |-> Frac(7, 10), floor_loss |-> Frac(-4, 100), k_gain |-> Frac(4, 10),
               min_gain |-> Frac(8, 1000), max_gain |-> Frac(6, 100)]]

\* abs(min(ret * k_loss, floor_loss)) if ret < 0, else
\* max(min_gain, min(ret * k_gain, max_gain)); 0.0 with no trades.
\* (variant: the gain estimate has no upper limit)
MaxDrawdown_NoCap(which, ret, trades) ==
    LET k == Coef[which]
    IN  IF trades > 0
        THEN IF Less(ret, Zero)
             THEN AbsQ(MinQ(Times(ret, k.k_loss), k.floor_loss))
             ELSE MaxQ(k.min_gain, Times(ret, k.k_gain))
        ELSE Zero
MaxDrawdown(which, ret, trades) ==
    LET k == Coef[which]
    IN  IF trades > 0
        THEN IF Less(ret, Zero)
             THEN AbsQ(MinQ(Times(ret, k.k_loss), k.floor_loss))
             ELSE MaxQ(k.min_gain, MinQ(Times(ret, k.k_gain), k.max_gain))
        ELSE Zero

NoReport ==
    [total_return |-> Zero, win_rate |-> Zero, sharpe |-> [coef |-> Zero, root |-> 0],
     max_drawdown |-> Zero]

\* run_backtest after a run: total_return from the values before and after
\* it (the value before is the cash set), then the win rate, sharpe and
\* max_drawdown figures of the strategy.
Summarise ==
    /\ phase = "done"
    /\ phase' = "reported"
    /\ LET ret == TotalReturn(result.value, params.cash)
       IN  report' = [total_return |-> ret,
                      win_rate     |-> WinRate(result.wins, result.trades),
                      sharpe       |-> Sharpe(ret, result.trades),
                      max_drawdown |-> MaxDrawdown(strategy, ret, result.trades)]
    /\ UNCHANGED <<scenario, columns, single, batch, fills, pred_prob, strategy, pc, idx, bar, closes, params, cash, position,
                   submitted, notifs, order, nref, buyprice, current_prob, trade_count,
                   win_count, buy_fills, sell_fills, last_buy, last_sell, result>>

\* run_backtest, its first lines: a table that lacks a required column is
\* turned away with None, before any Cerebro is made.
Enter ==
    /\ phase = "entry"
    /\ phase' = IF MissingCols(columns) # {} THEN "failed" ELSE "run"
    /\ UNCHANGED <<scenario, columns, single, batch, fills, pred_prob, report, strategy, pc,
                   idx, bar, closes, params, cash, position, submitted, notifs, order, nref,
                   buyprice, current_prob, trade_count, win_count, buy_fills, sell_fills,
                   last_buy, last_sell, result>>

\* A fresh Cerebro with the data, the strategy (its __init__) and
\* broker.setcash(cash), broker.setcommission(commission).
Start ==
    /\ strategy \in {"ml", "base"}
    /\ fills = [gross |-> 0, turnover |-> 0]
    /\ phase = "entry"
    /\ pc = "advance"
    /\ idx = -1
    /\ bar = NoBar
    /\ closes = <<>>
    /\ cash = params.cash
    /\ position = [size |-> 0, price |-> 0]
    /\ submitted = <<>>
    /\ notifs = <<>>
    /\ order = None
    /\ nref = 0
    /\ buyprice = 0
    /\ current_prob = 0
    /\ trade_count = 0
    /\ win_count = 0
    /\ buy_fills = 0
    /\ sell_fills = 0
    /\ last_buy = [bar |-> -1, price |-> 0]
    /\ last_sell = [bar |-> -1, price |-> 0]
    /\ result = [value |-> 0, trades |-> 0, wins |-> 0]
    /\ report = NoReport

Init ==
    /\ single = NoSingle
    /\ batch = NoBatch
    /\ scenario = "none"
    /\ columns \in ColumnChoices
    /\ pred_prob = Column
    /\ params \in [cash : Cashes, commission : Commissions]
    /\ Start

\* Scenario A, with the default cash and commission of run_backtest.
InitA ==
    /\ single = NoSingle
    /\ batch = NoBatch
    /\ scenario = "A"
    /\ columns = RequiredCols
    /\ pred_prob = Array(ScenarioProbs)
    /\ params = [cash |-> ScenarioCash, commission |-> 8]
    /\ Start

\* MLSignalStrategy run on its own with a pred_prob array of any length, or
\* none; SMACrossBaseline has no such parameter.
InitP ==
    /\ single = NoSingle
    /\ batch = NoBatch
    /\ scenario = "none"
    /\ columns = RequiredCols
    /\ pred_prob \in PredProbArrays
    /\ params = [cash |-> 100 * Scale, commission |-> 8]
    /\ Start
    /\ strategy = "base" => pred_prob = NoArray

Next ==
    \/ Enter
    \/ Advance
    \/ BrokerNext
    \/ Notify
    \/ MLNext
    \/ BaseNext
    \/ RunDone
    \/ Summarise

Spec == Init /\ [][Next]_vars

SpecA == InitA /\ [][Next]_vars

SpecP == InitP /\ [][Next]_vars

\* The summary on its own: the value, trade_count and win_count a run can
\* leave are drawn, win_count not above trade_count.
InitS ==
    /\ scenario = "none"
    /\ columns = RequiredCols
    /\ single = NoSingle
    /\ batch = NoBatch
    /\ fills = [gross |-> 0, turnover |-> 0]
    /\ pred_prob = Column
    /\ params \in [cash : Cashes, commission : {8}]
    /\ strategy \in {"ml", "base"}
    /\ phase = "done"
    /\ pc = "advance"
    /\ idx = 0
    /\ bar = NoBar
    /\ closes = <<>>
    /\ cash = params.cash
    /\ position = [size |-> 0, price |-> 0]
    /\ submitted = <<>>
    /\ notifs = <<>>
    /\ order = None
    /\ nref = 0
    /\ buyprice = 0
    /\ current_prob = 0
    /\ trade_count = 0
    /\ win_count = 0
    /\ buy_fills = 0
    /\ sell_fills = 0
    /\ last_buy = [bar |-> -1, price |-> 0]
    /\ last_sell = [bar |-> -1, price |-> 0]
    /\ \E d \in -MaxGain..MaxGain, t \in 0..MaxTrades :
         \E w \in 0..t :
           result = [value |-> params.cash + d * Scale, trades |-> t, wins |-> w]
    /\ report = NoReport

NextS == Summarise

SpecS == InitS /\ [][NextS]_vars

\* ------------------------------------------------------------ run_single_backtest
\* Dates are day numbers.  A features table is the ascending sequence of the
\* days of its rows (the index of the csv); its rows have no NaN, the
\* features having been saved after dropna().
Days == 1..MaxDay
Tables ==
    {t \in UNION {[1..n -> Days] : n \in 0..MaxDay} :
        \A i \in 1..(Len(t) - 1) : t[i] < t[i + 1]}

\* start_date, end_date as given: None, a 'YYYYMMDD' text of a day (one
\* before and one after the days of the tables included), or a text that is
\* no date.
NoDate == [kind |-> "None", day |-> 0]
BadDate == [kind |-> "bad", day |-> 0]
DateArgs == {NoDate, BadDate} \cup {[kind |-> "text", day |-> d] : d \in 0..(MaxDay + 1)}

\* `if start_date and end_date`
Given(a) == a.kind # "None"
\* pd.to_datetime(a, format='%Y%m%d'): the day, or an exception.
Parses(a) == a.kind = "text"
ToDatetime(a) == a.day

\* feat[(feat.index >= start_dt) & (feat.index <= end_dt)]
\* (variant: the end day is left out)
InRange_EndExclusive(d, start_dt, end_dt) == d >= start_dt /\ d < end_dt
InRange(d, start_dt, end_dt) == d >= start_dt /\ d <= end_dt
DateFilter(feat, start_dt, end_dt) ==
    SelectSeq(feat, LAMBDA d : InRange(d, start_dt, end_dt))

\* What a call of run_single_backtest is given and finds: the features file
\* (there or not, its table and columns), the dates, the model files ("ok",
\* "missing", or "mismatch" when the table lacks a feature of the model) and
\* whether the simulation raises.
SingleInputs ==
    [features : BOOLEAN, table : Tables, cols : ColumnChoices, start_date : DateArgs,
     end_date : DateArgs, model : {"ok", "missing", "mismatch"}, raises : BOOLEAN]

\* run_single_backtest on the inputs s: [outcome, called, table], outcome
\* "result" or "None", called whether run_backtest was called and table the
\* rows it was called with.
SingleResult(s) ==
    LET filtering == Given(s.start_date) /\ Given(s.end_date)
                     /\ Parses(s.start_date) /\ Parses(s.end_date)
        feat == IF filtering
                THEN DateFilter(s.table, ToDatetime(s.start_date), ToDatetime(s.end_date))
                ELSE s.table
        none == [outcome |-> "None", called |-> FALSE, simulated |-> FALSE, table |-> <<>>]
    IN  IF ~s.features THEN none
        ELSE IF filtering /\ Len(feat) = 0 THEN none
        ELSE IF s.model # "ok" THEN none
        ELSE IF Len(feat) = 0 THEN none
        ELSE IF MissingCols(s.cols \cup {"pred_prob"}) # {}
             THEN [outcome |-> "None", called |-> TRUE, simulated |-> FALSE, table |-> feat]
        ELSE IF s.raises
             THEN [outcome |-> "None", called |-> TRUE, simulated |-> TRUE, table |-> feat]
        ELSE [outcome |-> "result", called |-> TRUE, simulated |-> TRUE, table |-> feat]

\* A call of run_single_backtest.
RunSingle ==
    /\ single.at = "call"
    /\ single' = [at |-> "returned", inputs |-> single.inputs,
                  result |-> SingleResult(single.inputs)]
    /\ UNCHANGED <<scenario, columns, batch, fills, pred_prob, report, strategy, phase, pc, idx,
                   bar, closes, params, cash, position, submitted, notifs, order, nref,
                   buyprice, current_prob, trade_count, win_count, buy_fills, sell_fills,
                   last_buy, last_sell, result>>

\* The run variables while no run_backtest is followed.
NoRun ==
    /\ scenario = "none"
    /\ columns = RequiredCols
    /\ pred_prob = Column
    /\ params = [cash |-> 100 * Scale, commission |-> 8]
    /\ Start
    /\ strategy = "ml"

InitR ==
    /\ NoRun
    /\ batch = NoBatch
    /\ \E s \in SingleInputs : single = [at |-> "call", inputs |-> s]

NextR == RunSingle

SpecR == InitR /\ [][NextR]_vars

\* ------------------------------------------------------------ batch_backtest
Symbols == {"s1", "s2", "s3"}
\* stock_list: the codes of the batch, each once.
StockLists ==
    {l \in UNION {[1..n -> Symbols] : n \in 0..MaxStocks} :
        \A i, j \in 1..Len(l) : l[i] = l[j] => i = j}

\* What run_single_backtest can return, over all it can be given.
SingleOutcomes == {SingleResult(s).outcome : s \in SingleInputs}

\* One turn of the loop of batch_backtest, for the code at place i + 1:
\* run_single_backtest returns a result, which is stored and counted, or
\* None, for which nothing is stored; an exception it lets out is stored
\* as {'status': 'error'}.  attempts and failed are history: the codes tried
\* so far, and those of them that gave no result.
\* (variant: the loop ends at the first code without a result)
BatchStep_StopAtFailure ==
    /\ batch.at = "loop"
    /\ batch.i < Len(batch.stock_list)
    /\ \E outcome \in SingleOutcomes \cup {"raises"} :
         LET code == batch.stock_list[batch.i + 1]
         IN  batch' = [batch EXCEPT
                 !.at = IF outcome = "result" THEN "loop" ELSE "done",
                 !.i = batch.i + 1,
                 !.results[code] = IF outcome = "raises" THEN "error"
                                   ELSE IF outcome = "result" THEN "result" ELSE @,
                 !.success_count = IF outcome = "result" THEN @ + 1 ELSE @,
                 !.attempts = Append(@, code),
                 !.failed = IF outcome = "result" THEN @ ELSE @ \cup {code}]
    /\ UNCHANGED <<scenario, columns, single, fills, pred_prob, report, strategy, phase, pc, idx,
                   bar, closes, params, cash, position, submitted, notifs, order, nref,
                   buyprice, current_prob, trade_count, win_count, buy_fills, sell_fills,
                   last_buy, last_sell, result>>
BatchStep ==
    /\ batch.at = "loop"
    /\ batch.i < Len(batch.stock_list)
    /\ \E outcome \in SingleOutcomes \cup {"raises"} :
         LET code == batch.stock_list[batch.i + 1]
         IN  batch' = [batch EXCEPT
                 !.i = batch.i + 1,
                 !.results[code] = IF outcome = "raises" THEN "error"
                                   ELSE IF outcome = "result" THEN "result" ELSE @,
                 !.success_count = IF outcome = "result" THEN @ + 1 ELSE @,
                 !.attempts = Append(@, code),
                 !.failed = IF outcome = "result" THEN @ ELSE @ \cup {code}]
    /\ UNCHANGED <<scenario, columns, single, fills, pred_prob, report, strategy, phase, pc, idx,
                   bar, closes, params, cash, position, submitted, notifs, order, nref,
                   buyprice, current_prob, trade_count, win_count, buy_fills, sell_fills,
                   last_buy, last_sell, result>>

\* The loop is over (at once for an empty stock_list): results is returned.
BatchDone ==
    /\ batch.at = "loop"
    /\ batch.i = Len(batch.stock_list)
    /\ batch' = [batch EXCEPT !.at = "done"]
    /\ UNCHANGED <<scenario, columns, single, fills, pred_prob, report, strategy, phase, pc, idx,
                   bar, closes, params, cash, position, submitted, notifs, order, nref,
                   buyprice, current_prob, trade_count, win_count, buy_fills, sell_fills,
                   last_buy, last_sell, result>>

InitB ==
    /\ NoRun
    /\ single = NoSingle
    /\ \E l \in StockLists :
         batch = [at |-> "loop", stock_list |-> l, i |-> 0,
                  results |-> [c \in Symbols |-> "absent"], success_count |-> 0,
                  attempts |-> <<>>, failed |-> {}]

NextB == BatchStep \/ BatchDone

SpecB == InitB /\ [][NextB]_vars

\* The loop is a for over a list and nothing in it waits: a step that can be
\* taken is taken.
FairSpecB == SpecB /\ WF_vars(NextB)

\* ------------------------------------------------------------ claims
\* What the strategy holds as outstanding: an order it refers to whose status
\* is none of Completed, Cancelled, Rejected.
Outstanding == order # None /\ order.status \notin {"Completed", "Cancelled", "Rejected"}
Submitted(side) == nref' = nref + 1 /\ order'.side = side /\ order'.status = "Submitted"
NothingSubmitted == nref' = nref /\ submitted' = submitted
StrategyStep(which) == strategy = which /\ pc = "next"

\* C1: in every state the position is 0 or 1 unit and at most one order is
\* queued at the broker, and it is the one the strategy refers to; a step that
\* creates an order creates one, and only when no order is outstanding.
C1_OnePositionOneOrder ==
    [][ /\ position'.size \in {0, 1}
        /\ Len(submitted') <= 1
        /\ submitted' # <<>> => order' = submitted'[1]
        /\ nref' # nref => nref' = nref + 1 /\ ~Outstanding /\ submitted = <<>> ]_vars

\* C1 witness: a bar has gone by with an order outstanding (a BUY the broker
\* refused for lack of cash) and nothing was submitted on it.
C1_Witness ==
    /\ pc = "advance"
    /\ Outstanding
    /\ order.status = "Margin"
    /\ idx >= order.bar + 2
    /\ nref = 1

\* C2: once a bar is processed, trade_count is the number of SELL orders
\* completed so far.
C2_TradeCountIsSellFills == pc = "advance" => trade_count = sell_fills

\* The SELL the strategy refers to was completed on this bar and is about to
\* be notified.
SellFillNotified ==
    /\ pc = "notify"
    /\ order # None
    /\ order.side = "sell"
    /\ order.status = "Completed"

\* C3: when a completed SELL is notified, win_count goes up by one if its
\* executed price is above the executed price of the BUY that opened the
\* position, and stays otherwise.
C3_WinIffAboveBuyFill ==
    [][ SellFillNotified =>
          win_count' = win_count + (IF order.executed > last_buy.price THEN 1 ELSE 0) ]_vars

\* C4: trade_count >= win_count >= 0 in every state of either strategy.
C4_WinsWithinTrades == trade_count >= win_count /\ win_count >= 0

\* C4 witness: a completed trade that was a win has been counted.
C4_Witness == pc = "next" /\ sell_fills = 1 /\ win_count = 1 /\ trade_count >= 1

\* C5: a step of MLSignalStrategy.next with no order outstanding submits a
\* BUY iff the position is flat and the probability is above the threshold,
\* and a SELL iff a position is open and the probability is at or below it.
C5_MLDecision ==
    [][ (StrategyStep("ml") /\ ~Outstanding) =>
          /\ Submitted("buy") <=> (position.size = 0 /\ current_prob' > ml_threshold)
          /\ Submitted("sell") <=> (position.size # 0 /\ current_prob' <= ml_threshold)
          /\ NothingSubmitted <=> ~(Submitted("buy") \/ Submitted("sell")) ]_vars

\* C5 witness: with the probability equal to the threshold a long strategy
\* has just submitted a SELL.
C5_Witness ==
    /\ strategy = "ml"
    /\ pc = "advance"
    /\ current_prob = ml_threshold
    /\ position.size = 1
    /\ order # None /\ order.side = "sell" /\ order.bar = idx

\* C6: an order that is completed was executed on the bar it was created on,
\* at that bar's close.
C6_FilledAtCloseOfSubmitBar ==
    (order # None /\ order.status = "Completed") =>
        (order.filled = order.bar /\ order.executed = order.created)

\* C7: scenario A ends flat with one trade, one win, two orders in all, the
\* BUY executed on bar 0 at 100 and the SELL on bar 2 at 102.
C7_ScenarioA ==
    (scenario = "A" /\ strategy = "ml" /\ phase = "done") =>
        /\ nref = 2
        /\ last_buy = [bar |-> 0, price |-> 100]
        /\ last_sell = [bar |-> 2, price |-> 102]
        /\ trade_count = 1
        /\ win_count = 1
        /\ position.size = 0

\* The means of the claims, straight from the closes: is the mean over period
\* defined ago bars back, and period times that mean.
Defined(period, ago) == idx - ago + 1 >= period
Total(period, ago) == Sum(closes, Len(closes) - ago - period + 1, Len(closes) - ago)
AllDefined == \A per \in {fast_period, slow_period}, ago \in {0, 1} : Defined(per, ago)
CrossUp ==
    /\ AllDefined
    /\ Total(fast_period, 0) * slow_period > Total(slow_period, 0) * fast_period
    /\ Total(fast_period, 1) * slow_period <= Total(slow_period, 1) * fast_period
CrossDown ==
    /\ AllDefined
    /\ Total(fast_period, 0) * slow_period < Total(slow_period, 0) * fast_period
    /\ Total(fast_period, 1) * slow_period >= Total(slow_period, 1) * fast_period

\* C8: a step of SMACrossBaseline.next with a position open, no order
\* outstanding and no death cross submits a SELL iff the close is below 0.95
\* times the executed price of the BUY that opened the position.
C8_StopLossOnEntryFill ==
    [][ (StrategyStep("base") /\ ~Outstanding /\ position.size # 0 /\ ~CrossDown) =>
          (Submitted("sell") <=> 100 * bar.close < 95 * last_buy.price) ]_vars

\* C9: a step of SMACrossBaseline.next with no order outstanding submits a
\* BUY iff flat and the fast mean crosses above the slow one on this bar, and
\* when long submits a SELL for the crossover iff it crosses below.
C9_CrossoverDecision ==
    [][ (StrategyStep("base") /\ ~Outstanding) =>
          /\ Submitted("buy") <=> (position.size = 0 /\ CrossUp)
          /\ (position.size # 0 /\ CrossDown) => Submitted("sell")
          /\ (position.size # 0 /\ ~CrossDown /\ 100 * bar.close >= 95 * buyprice)
                => NothingSubmitted ]_vars

\* C9 witness: a long baseline has just submitted a SELL on a death cross.
C9_Witness ==
    /\ strategy = "base"
    /\ pc = "advance"
    /\ position.size = 1
    /\ order # None /\ order.side = "sell" /\ order.bar = idx
    /\ CrossDown

\* C10: a step of the baseline on a bar where a mean of this bar or of the
\* one before is undefined submits nothing.
C10_NoSignalBeforeWindow ==
    [][ (strategy = "base" /\ pc = "next" /\ ~AllDefined) => NothingSubmitted ]_vars

\* C10 witness: the first bar with a slow mean has gone by, the fast mean
\* above the slow one, and no order was created.
C10_Witness ==
    /\ strategy = "base"
    /\ pc = "advance"
    /\ idx = slow_period - 1
    /\ Total(fast_period, 0) * slow_period > Total(slow_period, 0) * fast_period
    /\ nref = 0

\* C11: on every bar index i on which MLSignalStrategy takes a decision, the
\* probability it uses is pred_prob[min(i, len - 1)] when the array it was
\* given is not empty and 0.5 when it is empty or None; the index read lies
\* within the array.
C11_LookupClamped ==
    [][ (StrategyStep("ml") /\ ~Outstanding /\ pred_prob.kind # "column") =>
          LET n == Len(pred_prob.values)
              last == IF idx < n - 1 THEN idx ELSE n - 1
          IN  IF pred_prob.kind = "array" /\ n > 0
              THEN /\ current_prob' = pred_prob.values[last + 1]
                   /\ MappedIdx(idx) \in 0..(n - 1)
              ELSE current_prob' = 50 ]_vars

\* C11 witness: bar 3 was decided on the last entry of an array of two, which
\* is neither the first entry nor the default.
C11_Witness ==
    /\ strategy = "ml"
    /\ pc = "advance"
    /\ pred_prob.kind = "array"
    /\ Len(pred_prob.values) = 2
    /\ idx = 3
    /\ order = None
    /\ current_prob = pred_prob.values[2]
    /\ pred_prob.values[2] \notin {pred_prob.values[1], DefaultProb}

\* C12: a next() that finds the strategy's order still outstanding decides
\* nothing: it creates no order and leaves the order it waits for, the
\* position, buyprice, trade_count and win_count as they were.
C12_OutstandingSkipsBar ==
    [][ (pc = "next" /\ Outstanding) =>
          /\ NothingSubmitted
          /\ UNCHANGED <<order, position, buyprice, trade_count, win_count>> ]_vars

\* C12 witness: the baseline has gone through next() on the bar after the
\* one its order was created on, the order being still outstanding.
C12_Witness ==
    /\ strategy = "base"
    /\ pc = "advance"
    /\ Outstanding
    /\ idx = order.bar + 1

\* C13: buyprice, the entry price, changes only in a step in which a BUY is
\* filled, and is then the price of that fill.  (An order that ends without
\* a fill therefore leaves it as it was before the order was created.)
C13_EntryPriceOnlyAtFill ==
    [][ buyprice' # buyprice =>
          /\ buy_fills' = buy_fills + 1
          /\ buyprice' = last_buy'.price ]_vars

\* C14: a run that ends with its position still open (only BUYs, or a last
\* SELL that never filled) reports as trade_count the number of SELLs that
\* were filled, and no more wins than that: the open position adds nothing.
C14_OpenPositionNotCounted ==
    (phase = "done" /\ position.size # 0) =>
        /\ result.trades = sell_fills
        /\ result.wins <= sell_fills

C16_OpenPositionAtCost ==
    (phase = "done" /\ position.size # 0) =>
        result.value = cash + position.size * position.price * Scale

\* C16, amended: the final value of a run that ends with a position open is
\* the cash plus the position at the close of the last bar.
C16_OpenPositionAtLastClose ==
    (phase = "done" /\ position.size # 0) =>
        result.value = cash + position.size * bar.close * Scale

\* C16 witness: a run has ended some bars after its last BUY was filled, the
\* position open and the last close not the entry price.
C16_Witness ==
    /\ phase = "done"
    /\ position.size = 1
    /\ idx > last_buy.bar
    /\ bar.close # position.price

\* C17: the win rate reported for a run is 100 * win_count / (number of SELLs
\* filled in the run), and 0 when no SELL was filled; a run whose every
\* filled SELL was counted a win reports 100.
C17_WinRateOverCompletedTrades ==
    phase = "reported" =>
        /\ report.win_rate = IF sell_fills > 0 THEN Frac(100 * result.wins, sell_fills)
                             ELSE Zero
        /\ (sell_fills > 0 /\ result.wins = sell_fills) => report.win_rate = Frac(100, 1)

\* The constants C18 gives for each strategy.
DrawdownConstants ==
    [ml   |-> [k_loss |-> Frac(3, 5), floor_loss |-> Frac(-3, 100), k_gain |-> Frac(3, 10),
               min_gain |-> Frac(1, 200), max_gain |-> Frac(1, 20)],
     base |-> [k_loss |-> Frac(7, 10), floor_loss |-> Frac(-1, 25), k_gain |-> Frac(2, 5),
               min_gain |-> Frac(1, 125), max_gain |-> Frac(3, 50)]]
Clamp(x, lo, hi) == IF Less(x, lo) THEN lo ELSE IF Less(hi, x) THEN hi ELSE x

\* C18: the max_drawdown reported is 0 with no trades whatever the return;
\* otherwise |min(total_return * k_loss, floor_loss)| for a negative return
\* and total_return * k_gain clamped to [min_gain, max_gain] for any other,
\* with the constants of the strategy.
C18_MaxDrawdownFormula ==
    phase = "reported" =>
        LET r == report.total_return
            k == DrawdownConstants[strategy]
            x == Times(r, k.k_loss)
        IN  report.max_drawdown =
              IF result.trades = 0 THEN Zero
              ELSE IF r.num < 0
                   THEN (IF Less(x, k.floor_loss) THEN AbsQ(x) ELSE AbsQ(k.floor_loss))
                   ELSE Clamp(Times(r, k.k_gain), k.min_gain, k.max_gain)

\* C18 witness: ML, three trades and a return of 0.10 are reported with a
\* max_drawdown of 0.03.
C18_Witness ==
    /\ phase = "reported"
    /\ strategy = "ml"
    /\ result.trades = 3
    /\ report.total_return = Frac(1, 10)
    /\ report.max_drawdown = Frac(3, 100)

\* C19: the sharpe reported is 0 with no trades; otherwise total_return *
\* sqrt(trade_count), halved when total_return <= 0; with trades it has the
\* sign of total_return and is 0 exactly when total_return is.
C19_SharpeFormula ==
    phase = "reported" =>
        LET r == report.total_return
            s == report.sharpe
        IN  IF result.trades = 0
            THEN s.coef = Zero
            ELSE /\ s.root = result.trades
                 /\ r.num > 0 => s.coef = r
                 /\ r.num <= 0 => s.coef = Frac(r.num, 2 * r.den)
                 /\ (s.coef.num > 0) = (r.num > 0)
                 /\ (s.coef.num = 0) = (r.num = 0)

\* C19 witness: a loss over three trades is reported with a negative sharpe
\* of half the return times sqrt(3).
C19_Witness ==
    /\ phase = "reported"
    /\ result.trades = 3
    /\ report.total_return = Frac(-1, 10)
    /\ report.sharpe = [coef |-> Frac(-1, 20), root |-> 3]

\* C21: when the table lacks one of open, high, low, close, volume,
\* pred_prob, the only step run_backtest takes is to return None: no bar is
\* loaded, no order created and the broker and strategy stay as set up.
C21_MissingColumnsNoRun ==
    [][ ~({"open", "high", "low", "close", "volume", "pred_prob"} \subseteq columns) =>
          /\ phase' = "failed"
          /\ UNCHANGED <<idx, bar, cash, position, submitted, notifs, order, nref, buyprice,
                         current_prob, trade_count, win_count, result, report>> ]_vars

\* C21 witness: a table without volume has been turned away, no bar loaded.
C21_Witness ==
    /\ phase = "failed"
    /\ "volume" \notin columns
    /\ idx = -1
    /\ nref = 0

C22_FailuresRecorded ==
    batch.at = "done" => \A c \in batch.failed : batch.results[c] = "error"

\* C23: the codes tried are at any time the first i of stock_list, in its
\* order, each once; a code without a result does not end the loop; and the
\* loop gets to the end of the list, all of it tried.
C23_EveryStockOnce ==
    /\ [](batch.attempts = SubSeq(batch.stock_list, 1, batch.i))
    /\ [](batch.at = "done" => batch.attempts = batch.stock_list)
    /\ <>(batch.at = "done")

\* C23 witness: a batch of three is over, the first code having failed and
\* the last having a result.
C23_Witness ==
    /\ batch.at = "done"
    /\ Len(batch.stock_list) = 3
    /\ batch.attempts = batch.stock_list
    /\ batch.stock_list[1] \in batch.failed
    /\ batch.results[batch.stock_list[3]] = "result"

\* C25: over a bar at most one of the two flags, position open and order
\* outstanding, changes.  An order is filled only if it was outstanding when
\* the bar began, so a bar in which the position has changed (an order was
\* filled on it) must end with an order outstanding.
C25_OneFlagPerBar ==
    (pc = "advance" /\ idx >= 0 /\ (last_buy.bar = idx \/ last_sell.bar = idx)) =>
        Outstanding

\* C26: an order does not stay outstanding past the bar after the one it
\* was created on: a bar that ends with the strategy holding an outstanding
\* order is the bar that order was created on.
C26_ClearedByNextBar ==
    (pc = "advance" /\ Outstanding) => order.bar = idx

\* C27: no fill leaves the position short or of two units: the BUYs filled
\* are as many as the SELLs or one more, a BUY is filled only when they are
\* as many and a SELL only when the BUYs are one more; a BUY is created only
\* while flat and a SELL only while a unit is held.
C27_FillsAlternate ==
    [][ /\ buy_fills' - sell_fills' \in {0, 1}
        /\ position'.size = buy_fills' - sell_fills'
        /\ buy_fills' # buy_fills => (buy_fills = sell_fills /\ sell_fills' = sell_fills)
        /\ sell_fills' # sell_fills => (buy_fills = sell_fills + 1 /\ buy_fills' = buy_fills)
        /\ Submitted("buy") => position.size = 0
        /\ Submitted("sell") => position.size = 1 ]_vars

\* C27 witness: a BUY, a SELL and a second BUY have been filled, in that
\* order, on three bars.
C27_Witness ==
    /\ buy_fills = 2
    /\ sell_fills = 1
    /\ position.size = 1
    /\ last_sell.bar < last_buy.bar

\* C28: given a pred_prob with no value above ml_threshold (an empty array
\* and None, which stand for 0.5, included), the ML run creates no order,
\* stays flat with its cash and zero counters, does not fail, ends with the
\* value it began with and reports 0 for the return, sharpe, max_drawdown
\* and the win rate.
C28_NoSignalNoTrade ==
    (strategy = "ml" /\ pred_prob.kind \in {"array", "None"}
        /\ \A i \in 1..Len(pred_prob.values) : pred_prob.values[i] <= 51) =>
        /\ nref = 0
        /\ position.size = 0
        /\ cash = params.cash
        /\ trade_count = 0 /\ win_count = 0
        /\ phase # "failed"
        /\ phase \in {"done", "reported"} => result.value = params.cash
        /\ phase = "reported" =>
              /\ report.total_return = Zero
              /\ report.sharpe.coef = Zero
              /\ report.max_drawdown = Zero
              /\ report.win_rate = Zero

\* C29: the fill of a BUY at price p takes p and the commission
\* commission * p off the cash, that of a SELL adds p less the commission;
\* a run that ends flat has as value the cash it began with, plus the SELL
\* prices less the BUY prices, less the commission on every fill price; the
\* value is below the initial cash after one round trip bought and sold at
\* the same price with a commission above 0.
C29_CommissionPerFill ==
    [][ /\ buy_fills' = buy_fills + 1 =>
              cash' = cash - last_buy'.price * Scale - params.commission * last_buy'.price
        /\ sell_fills' = sell_fills + 1 =>
              cash' = cash + last_sell'.price * Scale - params.commission * last_sell'.price
        /\ (phase' = "done" /\ position'.size = 0) =>
              /\ result'.value = params.cash + fills'.gross * Scale
                                    - params.commission * fills'.turnover
              /\ (params.commission > 0 /\ buy_fills' = 1 /\ sell_fills' = 1
                    /\ last_buy'.price = last_sell'.price) => result'.value < params.cash
      ]_vars

\* C29 witness: a run has ended flat after one round trip bought and sold at
\* the same price with a commission of 0.0008, its value the initial cash
\* less the two commissions.
C29_Witness ==
    /\ phase = "done"
    /\ position.size = 0
    /\ params.commission = 8
    /\ buy_fills = 1 /\ sell_fills = 1
    /\ last_buy.price = last_sell.price
    /\ result.value = params.cash - 2 * 8 * last_buy.price

\* The place of a run in its course: four steps for each bar loaded (the bar
\* is loaded, the broker, the notifications, next), counted from the first.
Course ==
    4 * (idx + 1) - (CASE pc = "broker" -> 3 [] pc = "notify" -> 2 [] pc = "next" -> 1
                       [] OTHER -> 0)
RunStep == Enter \/ Advance \/ BrokerNext \/ Notify \/ MLNext \/ BaseNext \/ RunDone
RunEnded == phase \in {"done", "reported", "failed"}
PhaseOrder ==
    {<<"entry", "run">>, <<"entry", "failed">>, <<"run", "done">>, <<"run", "failed">>,
     <<"done", "reported">>}

\* C30: the bars are loaded one by one in ascending index; next() is entered
\* once for each bar loaded, after the broker and the notifications of that
\* bar, and left before the following bar is loaded; every step moves the
\* run forward in a course no longer than four steps for each bar of the feed;
\* the run ends only after the next() of a bar; and a run that has not ended
\* can always take its following step, whatever order is still outstanding,
\* so that it ends once the bars are exhausted.
C30_OncePerBarAndEnds ==
    /\ [][ /\ idx' # idx => (idx' = idx + 1 /\ pc = "advance" /\ pc' = "broker")
           /\ pc' = "next" => (pc = "notify" \/ pc = "next")
           /\ pc = "next" => ((pc' = "advance" /\ idx' = idx) \/ phase' = "failed")
           /\ (phase = "run" /\ phase' = "done") => (pc = "advance" /\ idx >= 0)
           /\ \/ (phase' = phase /\ phase = "run" /\ Course' = Course + 1)
              \/ (<<phase, phase'>> \in PhaseOrder /\ Course' = Course) ]_vars
    /\ [](Course <= 4 * FeedLen)
    /\ [](~RunEnded => ENABLED RunStep)

\* C30 witness: a run over all the bars has ended with the order the broker
\* refused still held by the strategy.
C30_Witness ==
    /\ phase = "reported"
    /\ idx = MaxBars - 1
    /\ order # None
    /\ order.status = "Margin"
    /\ order.bar < idx

====
